---------------------------- MODULE Spec2Model ----------------------------
(***************************************************************************)
(* A model of the data cleaning service: DataProcessor                     *)
(* (src/data_processor.py), the /clean request handler (src/routes.py)     *)
(* and ExportHandler.export_summary_report (src/export_handler.py).        *)
(*                                                                         *)
(* A DataFrame is a record [columns, dtypes, index, data]: the column      *)
(* names, one dtype per column ("number" or "object"), the index labels    *)
(* of the rows and the rows themselves.  Numbers are exact rationals       *)
(* (pandas computes in binary floating point; the values of the model are  *)
(* small integers and their means, medians and quartiles).                 *)
(***************************************************************************)
EXTENDS Integers, Sequences, FiniteSets, TLC

(***************************************************************************)
(* Bounds of the model.                                                    *)
(***************************************************************************)
\* A short uploaded table: HeadLen rows of freely chosen kinds, then ShortFill
\* plain rows.
HeadLen == 3
ShortFill == 1
\* A long uploaded table: LongHead rows of freely chosen kinds, then LongFill
\* plain rows.
LongHead == 2
LongFill == 10
\* Stage calls of one request that raise.
MaxRaises == 1
\* The anomaly model flags at most this many of the rows it was fitted on.
MaxFlagged == 1
\* The cleaning stages alone: a frame passed in has up to StageLen rows of
\* freely chosen kinds, or is one of the long frames.
StageLen == 4

\* load_data alone: the row cap is the default or any of 1..MaxCap, and a file
\* holds up to MaxCap + MaxOver rows.
MaxCap == 2
MaxOver == 1

(***************************************************************************)
(* Cells.  A cell is NaN (null), a number n/d (d > 0, in lowest terms) or  *)
(* a string.                                                               *)
(***************************************************************************)
NaN == [k |-> "nan", n |-> 0, d |-> 1, s |-> ""]
Str(s) == [k |-> "str", n |-> 0, d |-> 1, s |-> s]

Abs(x) == IF x < 0 THEN -x ELSE x

RECURSIVE GCD(_, _)
GCD(x, y) == IF y = 0 THEN x ELSE GCD(y, x % y)

\* The number n/d, d > 0, in lowest terms.
Rat(n, d) ==
  LET g == GCD(Abs(n), d)
  IN [k |-> "num", n |-> n \div g, d |-> d \div g, s |-> ""]

Num(n) == Rat(n, 1)

isnull(c) == c.k = "nan"
notna(c) == c.k # "nan"

RAdd(x, y) == Rat(x.n * y.d + y.n * x.d, x.d * y.d)
RSub(x, y) == Rat(x.n * y.d - y.n * x.d, x.d * y.d)
\* x * (p/q), q > 0
RScale(x, p, q) == Rat(x.n * p, x.d * q)
RLess(x, y) == x.n * y.d < y.n * x.d

\* Python's order of the strings of the model ('U' < 'x' < 'y' < 'z').
StrRank(s) ==
  CASE s = "Unknown" -> 0
    [] s = "x" -> 1
    [] s = "y" -> 2
    [] s = "z" -> 3
    [] OTHER -> 4

(***************************************************************************)
(* Sequences.                                                              *)
(***************************************************************************)
Min(x, y) == IF x < y THEN x ELSE y

\* The elements of seq at the positions that satisfy Keep, in order.
RECURSIVE FilterPos(_, _, _)
FilterPos(seq, keep, i) ==
  IF i > Len(seq) THEN << >>
  ELSE IF i \in keep THEN << seq[i] >> \o FilterPos(seq, keep, i + 1)
       ELSE FilterPos(seq, keep, i + 1)

RECURSIVE RSum(_)
RSum(vals) == IF vals = << >> THEN Num(0) ELSE RAdd(Head(vals), RSum(Tail(vals)))

\* Insertion into an ascending sequence of numbers.
RECURSIVE RInsert(_, _)
RInsert(x, sorted) ==
  IF sorted = << >> THEN << x >>
  ELSE IF RLess(Head(sorted), x) THEN << Head(sorted) >> \o RInsert(x, Tail(sorted))
       ELSE << x >> \o sorted

RECURSIVE RSort(_)
RSort(vals) == IF vals = << >> THEN << >> ELSE RInsert(Head(vals), RSort(Tail(vals)))

(***************************************************************************)
(* pandas: the DataFrame operations the program calls.                     *)
(***************************************************************************)
len(df) == Len(df.data)

Positions(df) == 1..Len(df.data)

ColumnPositions(df) == 1..Len(df.columns)

\* df[col] as the sequence of its cells.
Column(df, j) == [i \in 1..Len(df.data) |-> df.data[i][j]]

\* A variant of Take: the rows at the positions of keep, the last one first.
TakeReversed(df, keep) ==
  LET index == FilterPos(df.index, keep, 1)
      data == FilterPos(df.data, keep, 1)
  IN [columns |-> df.columns,
      dtypes |-> df.dtypes,
      index |-> [i \in 1..Len(index) |-> index[Len(index) + 1 - i]],
      data |-> [i \in 1..Len(data) |-> data[Len(data) + 1 - i]]]

\* The rows at the positions of keep, in their order, with their index labels.
Take(df, keep) ==
  [columns |-> df.columns,
   dtypes |-> df.dtypes,
   index |-> FilterPos(df.index, keep, 1),
   data |-> FilterPos(df.data, keep, 1)]

\* df.empty
empty(df) == Len(df.data) = 0 \/ Len(df.columns) = 0

\* df.head(n): the first n rows.
head(df, n) ==
  [df EXCEPT !.index = SubSeq(df.index, 1, Min(n, Len(df.index))),
             !.data = SubSeq(df.data, 1, Min(n, Len(df.data)))]

\* df.select_dtypes(include=[np.number]).columns, as column positions.
select_dtypes_number(df) == {j \in ColumnPositions(df) : df.dtypes[j] = "number"}

\* df[col].dtype == 'object'
is_object(df, j) == df.dtypes[j] = "object"

\* df[col].notna().sum()
notna_sum(df, j) == Cardinality({i \in Positions(df) : notna(df.data[i][j])})

\* The non-null cells of a column, in row order.
NonNull(df, j) ==
  FilterPos(Column(df, j), {i \in Positions(df) : notna(df.data[i][j])}, 1)

\* The positions of the rows with no null in the columns cols.
CompletePositions(df, cols) ==
  {i \in Positions(df) : \A j \in cols : notna(df.data[i][j])}

\* df.dropna(): a new frame without the rows that hold a null in any column.
dropna(df) == Take(df, CompletePositions(df, ColumnPositions(df)))

\* df.duplicated(): a row is a duplicate when an earlier row equals it in all
\* columns (nulls compare equal to nulls).
duplicated(df, i) == \E h \in 1..(i - 1) : df.data[h] = df.data[i]

\* A variant of drop_duplicates: the last row of each group of equal rows is
\* the one kept.
drop_duplicates_keep_last(df) ==
  Take(df, {i \in Positions(df) :
              ~\E h \in (i + 1)..Len(df.data) : df.data[h] = df.data[i]})

\* A variant of drop_duplicates: only a row equal to the row right above it is
\* dropped.
drop_adjacent_duplicates(df) ==
  Take(df, {i \in Positions(df) : i = 1 \/ df.data[i - 1] # df.data[i]})

\* df.drop_duplicates(): a new frame that keeps the first row of each group of
\* equal rows.
drop_duplicates(df) == Take(df, {i \in Positions(df) : ~duplicated(df, i)})

\* df.loc[labels]: the rows whose index label is in labels.
loc(df, labels) == Take(df, {i \in Positions(df) : df.index[i] \in labels})

\* Series.mean(): NaN for a column without values.
mean(df, j) ==
  LET vals == NonNull(df, j)
  IN IF vals = << >> THEN NaN ELSE RScale(RSum(vals), 1, Len(vals))

\* Series.quantile(q) with q = p/4, by linear interpolation between the two
\* closest ranks of the sorted values.
quantile(df, j, p) ==
  LET v == RSort(NonNull(df, j))
      h == (Len(v) - 1) * p
      lo == h \div 4
      f == h % 4
  IN IF v = << >> THEN NaN
     ELSE IF f = 0 THEN v[lo + 1]
     ELSE RAdd(v[lo + 1], RScale(RSub(v[lo + 2], v[lo + 1]), f, 4))

\* Series.median()
median(df, j) == quantile(df, j, 2)

\* How often the string s occurs in column j.
value_count(df, j, s) ==
  Cardinality({i \in Positions(df) : df.data[i][j] = Str(s)})

\* Series.mode(): the most frequent non-null values, ascending; the set of them.
mode(df, j) ==
  LET vals == {df.data[i][j].s : i \in {h \in Positions(df) : notna(df.data[h][j])}}
  IN {s \in vals : \A u \in vals : value_count(df, j, u) <= value_count(df, j, s)}

\* mode().iloc[0]: the smallest of the modes.
mode_first(df, j) ==
  CHOOSE s \in mode(df, j) : \A u \in mode(df, j) : StrRank(s) <= StrRank(u)

\* A variant of fillna: every cell of the columns of cols is set to the value.
fillna_overwrite(df, cols, value) ==
  [df EXCEPT !.data =
     [i \in 1..Len(df.data) |->
        [j \in 1..Len(df.columns) |->
           IF j \in cols /\ notna(value[j]) THEN value[j] ELSE df.data[i][j]]]]

\* df[col].fillna(value) for the columns of cols, value[j] for column j; a NaN
\* value fills nothing.
fillna(df, cols, value) ==
  [df EXCEPT !.data =
     [i \in 1..Len(df.data) |->
        [j \in 1..Len(df.columns) |->
           IF j \in cols /\ isnull(df.data[i][j]) /\ notna(value[j])
           THEN value[j] ELSE df.data[i][j]]]]

(***************************************************************************)
(* Files.  A file name is [prefix, stem, ext]: the number of "cleaned_"    *)
(* prefixes, the stem and the extension.  A file's content is [format,     *)
(* bytes, header, cells]: text or workbook, the class of its bytes, and    *)
(* the header line and the cells a parser finds in it.                     *)
(***************************************************************************)
Columns == << "a", "b", "s", "t" >>

\* The kinds of row of an uploaded table: plain, null in a, null in b, null in
\* s, and a far value of a.
Kinds == {"N", "A", "B", "S", "O"}

\* The row of a kind at row number i (counted from 1).
Row(kind, i) ==
  CASE kind = "N" -> << Num(i), Num(5), Str("x"), Str("y") >>
    [] kind = "A" -> << NaN, Num(5), Str("x"), Str("y") >>
    [] kind = "B" -> << Num(i), NaN, Str("x"), Str("y") >>
    [] kind = "S" -> << Num(i), Num(5), NaN, Str("y") >>
    [] kind = "O" -> << Num(100), Num(5), Str("z"), Str("y") >>

\* The cells of the table with the head rows of the given kinds and f plain
\* rows after them.
Cells(kinds, f) ==
  [i \in 1..(Len(kinds) + f) |->
     IF i <= Len(kinds) THEN Row(kinds[i], i) ELSE Row("N", i)]

TextContent(bytes, header, cells) ==
  [format |-> "text", bytes |-> bytes, header |-> header, cells |-> cells]

Workbook(header, cells) ==
  [format |-> "workbook", bytes |-> "binary", header |-> header, cells |-> cells]

UploadedTables ==
  {Cells(kinds, ShortFill) : kinds \in [1..HeadLen -> Kinds]}
    \cup {Cells(kinds, LongFill) : kinds \in [1..LongHead -> Kinds]}

\* The tables whose quality report is asked for: those, the tables of HeadLen
\* rows of freely chosen kinds and LongFill - 1 or LongFill plain rows, and the
\* table whose column a is 1, 2, 3, 4, 5, 100.
ViewedTables ==
  UploadedTables
    \cup {Cells(kinds, f) : kinds \in [1..HeadLen -> Kinds], f \in {LongFill - 1, LongFill}}
    \cup {Cells(<< "N", "N", "N", "N", "N", "O" >>, 0)}

UploadName(ext) == [prefix |-> 0, stem |-> "uuid", ext |-> ext]

\* f"cleaned_{session['current_file']}"
cleaned_filename(name) == [name EXCEPT !.prefix = @ + 1]

\* The dtype the parser infers for column j: object when a cell holds text,
\* else a number dtype (float64 for a column with nulls or without values).
InferDtype(cells, j) ==
  IF \E i \in 1..Len(cells) : cells[i][j].k = "str" THEN "object" ELSE "number"

\* The frame a parser builds from a file's header and cells: a fresh
\* RangeIndex and inferred dtypes.
read_table(content) ==
  [columns |-> content.header,
   dtypes |-> [j \in 1..Len(content.header) |-> InferDtype(content.cells, j)],
   index |-> [i \in 1..Len(content.cells) |-> i - 1],
   data |-> content.cells]

\* df.to_csv(path, index=False): the header and the cells, without the index
\* and without the dtypes.
to_csv(df) == TextContent("ascii", df.columns, df.data)

\* df.to_excel(path, index=False)
to_excel(df) == Workbook(df.columns, df.data)

(***************************************************************************)
(* DataProcessor.load_data                                                 *)
(***************************************************************************)
\* DataProcessor.__init__: the attributes of a new processor.
DataProcessor ==
  [max_rows |-> 100000,
   encodings |-> << "utf-8", "latin-1", "iso-8859-1", "cp1252" >>]

NoFrame == [columns |-> << >>, dtypes |-> << >>, index |-> << >>, data |-> << >>]

\* str.lower() on the extensions of the model.
lower(ext) ==
  CASE ext = "CSV" -> "csv"
    [] ext = "XLSX" -> "xlsx"
    [] ext = "XLS" -> "xls"
    [] OTHER -> ext

\* Whether bytes of a class decode under an encoding: pure ASCII and valid
\* UTF-8 decode under every codec of the list; bytes that are not valid UTF-8
\* decode under latin-1 and iso-8859-1 (every byte is a character there), and
\* under cp1252 unless they hold a byte cp1252 leaves undefined.
Decodes(bytes, encoding) ==
  CASE encoding = "utf-8" -> bytes \in {"ascii", "utf8"}
    [] encoding \in {"latin-1", "iso-8859-1"} -> TRUE
    [] encoding = "cp1252" -> bytes # "undefined1252"

\* pd.read_csv(file_path, encoding=encoding): the exception raised ("none":
\* none) and the frame.
read_csv(content, encoding) ==
  IF ~Decodes(content.bytes, encoding)
  THEN [exc |-> "UnicodeDecodeError", df |-> NoFrame]
  ELSE IF content.format # "text" \/ content.header = << >>
  THEN [exc |-> "ParserError", df |-> NoFrame]
  ELSE [exc |-> "none", df |-> read_table(content)]

\* pd.read_excel(file_path)
read_excel(content) ==
  IF content.format # "workbook"
  THEN [exc |-> "ValueError", df |-> NoFrame]
  ELSE [exc |-> "none", df |-> read_table(content)]

\* A variant of try_encodings: the k-th encoding alone is tried, and a decode
\* error ends the loop.
try_encodings_no_fallback(self, content, k) ==
  LET r == read_csv(content, self.encodings[k])
  IN IF r.exc = "UnicodeDecodeError"
     THEN [exc |-> "exhausted", df |-> NoFrame, tried |-> k, reads |-> k]
     ELSE [exc |-> r.exc, df |-> r.df, tried |-> k, reads |-> k]

\* The loop over self.encodings from the k-th on: the first read that raises
\* no UnicodeDecodeError ends it; tried counts the reads made.
RECURSIVE try_encodings(_, _, _)
try_encodings(self, content, k) ==
  IF k > Len(self.encodings)
  THEN [exc |-> "exhausted", df |-> NoFrame, tried |-> k - 1, reads |-> k - 1]
  ELSE LET r == read_csv(content, self.encodings[k])
       IN IF r.exc = "UnicodeDecodeError"
          THEN try_encodings(self, content, k + 1)
          ELSE [exc |-> r.exc, df |-> r.df, tried |-> k, reads |-> k]

None == [ok |-> FALSE, df |-> NoFrame]
Some(df) == [ok |-> TRUE, df |-> df]

\* "Limit rows for performance": df.head(self.max_rows) when len(df) exceeds it.
limit_rows(self, df) == IF len(df) > self.max_rows THEN head(df, self.max_rows) ELSE df

\* What load_data logs at warning level.
load_warnings(self, df) ==
  IF len(df) > self.max_rows THEN << "Dataset too large" >> ELSE << >>

\* A variant of read_by_extension: every file that is not a csv file is read
\* as a workbook.
read_by_extension_excel_else(self, file_extension, content) ==
  IF file_extension = "csv"
  THEN try_encodings(self, content, 1)
  ELSE [exc |-> read_excel(content).exc, df |-> read_excel(content).df,
        tried |-> 0, reads |-> 1]

\* The if / elif / else on file_extension: the exception raised and the frame
\* read, tried the number of encodings read with, reads the number of reads of
\* the file (read_csv, read_excel) made.
read_by_extension(self, file_extension, content) ==
  IF file_extension = "csv"
  THEN try_encodings(self, content, 1)
  ELSE IF file_extension \in {"xlsx", "xls"}
       THEN [exc |-> read_excel(content).exc, df |-> read_excel(content).df,
             tried |-> 0, reads |-> 1]
       ELSE [exc |-> "unsupported", df |-> NoFrame, tried |-> 0, reads |-> 0]

\* load_data(file_path) of a file with the given name and content: ret is the
\* value returned (None or a frame), tried and reads as above, warnings the
\* warnings logged.
load_data(self, name, content) ==
  LET r == read_by_extension(self, lower(name.ext), content)
  IN IF r.exc # "none" \/ empty(r.df)
     THEN [ret |-> None, tried |-> r.tried, reads |-> r.reads, warnings |-> << >>]
     ELSE [ret |-> Some(limit_rows(self, r.df)), tried |-> r.tried, reads |-> r.reads,
           warnings |-> load_warnings(self, r.df)]

(***************************************************************************)
(* DataProcessor.get_data_quality_info                                     *)
(***************************************************************************)
\* "if df[col].notna().sum() > 10" of get_data_quality_info.
QualityMinValues == 10

\* round(x, 2) of the percentage count / total * 100, in hundredths (ties to
\* the even hundredth).
Percentage(count, total) ==
  LET q == (count * 10000) \div total
      r == (count * 10000) % total
  IN IF 2 * r > total \/ (2 * r = total /\ q % 2 = 1) THEN q + 1 ELSE q

\* The columns with a null, each with its count and percentage.
missing_data(df) ==
  [j \in {c \in ColumnPositions(df) : notna_sum(df, c) < len(df)} |->
     [count |-> len(df) - notna_sum(df, j),
      percentage |-> Percentage(len(df) - notna_sum(df, j), len(df))]]

\* Q1 - 1.5 * IQR
lower_bound(df, j) ==
  RSub(quantile(df, j, 1), RScale(RSub(quantile(df, j, 3), quantile(df, j, 1)), 3, 2))

\* Q3 + 1.5 * IQR
upper_bound(df, j) ==
  RAdd(quantile(df, j, 3), RScale(RSub(quantile(df, j, 3), quantile(df, j, 1)), 3, 2))

\* A variant of iqr_outliers: a value equal to a bound is an outlier too.
iqr_outliers_inclusive(df, j) ==
  {i \in Positions(df) :
     /\ notna(df.data[i][j])
     /\ \/ ~RLess(lower_bound(df, j), df.data[i][j])
        \/ ~RLess(df.data[i][j], upper_bound(df, j))}

\* The rows of df[(df[col] < lower_bound) | (df[col] > upper_bound)]: a null
\* compares false with both bounds.
iqr_outliers(df, j) ==
  {i \in Positions(df) :
     /\ notna(df.data[i][j])
     /\ \/ RLess(df.data[i][j], lower_bound(df, j))
        \/ RLess(upper_bound(df, j), df.data[i][j])}

\* The numeric columns the outlier detection examines.
outlier_columns(df) ==
  {j \in select_dtypes_number(df) : notna_sum(df, j) > QualityMinValues}

\* A variant of reported_outlier_columns: every examined column is recorded.
reported_all_examined(df) == outlier_columns(df)

\* The columns recorded in quality_info['outliers']: the examined columns with
\* at least one outlier ("if len(outliers) > 0").
reported_outlier_columns(df) ==
  {j \in outlier_columns(df) : Cardinality(iqr_outliers(df, j)) > 0}

\* quality_info['outliers']
outliers(df) ==
  [j \in reported_outlier_columns(df) |->
     [count |-> Cardinality(iqr_outliers(df, j)),
      percentage |-> Percentage(Cardinality(iqr_outliers(df, j)), len(df)),
      lower_bound |-> lower_bound(df, j),
      upper_bound |-> upper_bound(df, j)]]

\* df.duplicated().sum()
duplicate_rows(df) == Cardinality({i \in Positions(df) : duplicated(df, i)})

get_data_quality_info(df) ==
  [total_rows |-> len(df),
   total_columns |-> Len(df.columns),
   missing_data |-> missing_data(df),
   duplicate_rows |-> duplicate_rows(df),
   data_types |-> df.dtypes,
   outliers |-> outliers(df)]

\* The report before a request has rendered one.
NoQualityInfo ==
  [total_rows |-> 0, total_columns |-> 0, missing_data |-> << >>,
   duplicate_rows |-> 0, data_types |-> << >>, outliers |-> << >>]

(***************************************************************************)
(* DataProcessor: the cleaning stages, as functions of the frame.          *)
(***************************************************************************)
\* "if df[col].notna().sum() > 10" of remove_outliers.
OutlierMinValues == 10

\* "if len(data_for_outliers) < 10"
OutlierMinRows == 10

Strategies == {"drop", "fill_mean", "fill_median", "fill_mode", "none"}

\* The frame after the fill_mean branch has assigned the filled columns.
fill_mean(df) ==
  fillna(df, select_dtypes_number(df), [j \in ColumnPositions(df) |-> mean(df, j)])

\* The frame after the fill_median branch has assigned the filled columns.
fill_median(df) ==
  fillna(df, select_dtypes_number(df), [j \in ColumnPositions(df) |-> median(df, j)])

\* A variant of fill_mode_column: a column without a mode is left as it is.
fill_mode_column_no_sentinel(df, j) ==
  IF is_object(df, j) /\ mode(df, j) # {}
  THEN fillna(df, {j}, [c \in ColumnPositions(df) |-> Str(mode_first(df, j))])
  ELSE df

\* One turn of the fill_mode loop, for column j.
fill_mode_column(df, j) ==
  IF is_object(df, j)
  THEN fillna(df, {j},
              [c \in ColumnPositions(df) |->
                 IF mode(df, j) # {} THEN Str(mode_first(df, j)) ELSE Str("Unknown")])
  ELSE df

\* The fill_mode loop from column j on.
RECURSIVE fill_mode_from(_, _)
fill_mode_from(df, j) ==
  IF j > Len(df.columns) THEN df ELSE fill_mode_from(fill_mode_column(df, j), j + 1)

\* A variant of strategy_branch: a strategy that is none of the four is taken
\* for the default of the parameter, 'drop'.
strategy_branch_default_drop(strategy) ==
  IF strategy \in {"drop", "fill_mean", "fill_median", "fill_mode"} THEN strategy ELSE "drop"

\* The branch of the if / elif / else on strategy that is taken.
strategy_branch(strategy) ==
  IF strategy \in {"drop", "fill_mean", "fill_median", "fill_mode"} THEN strategy ELSE "else"

\* The frame handle_missing_values returns when nothing raises.
handle_missing_values(df, strategy) ==
  CASE strategy_branch(strategy) = "drop" -> dropna(df)
    [] strategy_branch(strategy) = "fill_mean" -> fill_mean(df)
    [] strategy_branch(strategy) = "fill_median" -> fill_median(df)
    [] strategy_branch(strategy) = "fill_mode" -> fill_mode_from(df, 1)
    [] OTHER -> df

\* valid_columns of remove_outliers.
valid_columns(df) ==
  {j \in select_dtypes_number(df) : notna_sum(df, j) > OutlierMinValues}

\* The positions of the rows of data_for_outliers = df[valid_columns].dropna().
data_for_outliers(df) == CompletePositions(df, valid_columns(df))

\* A variant of runs_model: OutlierMinRows complete rows are not enough.
runs_model_above_minimum(df) ==
  /\ select_dtypes_number(df) # {}
  /\ valid_columns(df) # {}
  /\ ~(Cardinality(data_for_outliers(df)) <= OutlierMinRows)

\* Whether remove_outliers fits the model (none of its early returns is taken).
runs_model(df) ==
  /\ select_dtypes_number(df) # {}
  /\ valid_columns(df) # {}
  /\ ~(Cardinality(data_for_outliers(df)) < OutlierMinRows)

\* The sets of fitted rows IsolationForest(contamination=0.1,
\* random_state=42).fit_predict may label -1: which rows it flags is the
\* library's, so any choice of at most MaxFlagged fitted rows.
Flaggable(df) ==
  {f \in SUBSET data_for_outliers(df) : Cardinality(f) <= MaxFlagged}

\* data_for_outliers.index[outlier_labels == 1]: the labels of the fitted rows
\* that are not flagged.
non_outlier_indices(df, flagged) ==
  {df.index[i] : i \in data_for_outliers(df) \ flagged}

\* df_clean = df.loc[non_outlier_indices]
outliers_removed(df, flagged) == loc(df, non_outlier_indices(df, flagged))

\* The frame remove_outliers returns when nothing raises and the model, if it
\* is fitted, flags the rows flagged.
remove_outliers(df, flagged) ==
  IF runs_model(df) THEN outliers_removed(df, flagged) ELSE df

(***************************************************************************)
(* ExportHandler: the frames of the summary report's sections.  A frame    *)
(* built for a sheet is [header, labels, cells], labels being its row      *)
(* labels when it is written with index=True.                              *)
(***************************************************************************)
SampleRows == 1000

SampleValues == 5

SheetNames == {"Data Sample", "Statistics", "Data Quality", "Column Info"}

\* pd.DataFrame({'Error': [str(e)]})
ErrorFrame == [header |-> << "Error" >>, labels |-> << >>, cells |-> << << Str("str(e)") >> >>]

\* pd.DataFrame({'Message': ['No numeric columns found']})
MessageFrame ==
  [header |-> << "Message" >>, labels |-> << >>,
   cells |-> << << Str("No numeric columns found") >> >>]

\* df.head(1000), as written with index=False.
sample_frame(df) ==
  [header |-> df.columns, labels |-> << >>, cells |-> head(df, SampleRows).data]

RMul(x, y) == Rat(x.n * y.n, x.d * y.d)

\* Series.std(): the square root of the sample variance n/d, kept as the
\* variance; NaN for fewer than two values.
std(df, j) ==
  LET vals == NonNull(df, j)
      m == mean(df, j)
      sq == [i \in 1..Len(vals) |-> RMul(RSub(vals[i], m), RSub(vals[i], m))]
  IN IF Len(vals) < 2 THEN NaN
     ELSE [RScale(RSum(sq), 1, Len(vals) - 1) EXCEPT !.k = "sqrt"]

\* Series.min(), Series.max(): NaN for a column without values.
min(df, j) == IF NonNull(df, j) = << >> THEN NaN ELSE RSort(NonNull(df, j))[1]
max(df, j) ==
  IF NonNull(df, j) = << >> THEN NaN ELSE RSort(NonNull(df, j))[Len(NonNull(df, j))]

\* The positions of a set of columns, ascending.
RECURSIVE Ascending(_)
Ascending(cols) ==
  IF cols = {} THEN << >>
  ELSE LET j == CHOOSE c \in cols : \A o \in cols : c <= o
       IN << j >> \o Ascending(cols \ {j})

\* df[numeric_columns].describe()
describe(df, cols) ==
  LET order == Ascending(cols)
      row(f(_)) == [c \in 1..Len(order) |-> f(order[c])]
      Count(j) == Num(notna_sum(df, j))
      Mean(j) == mean(df, j)
      Std(j) == std(df, j)
      Lowest(j) == min(df, j)
      Q1(j) == quantile(df, j, 1)
      Q2(j) == quantile(df, j, 2)
      Q3(j) == quantile(df, j, 3)
      Highest(j) == max(df, j)
  IN [header |-> [c \in 1..Len(order) |-> df.columns[order[c]]],
      labels |-> << "count", "mean", "std", "min", "25%", "50%", "75%", "max" >>,
      cells |-> << row(Count), row(Mean), row(Std), row(Lowest), row(Q1), row(Q2),
                   row(Q3), row(Highest) >>]

\* _create_stats_dataframe(df), when nothing in it raises.
stats_frame(df) ==
  IF select_dtypes_number(df) = {} THEN MessageFrame
  ELSE describe(df, select_dtypes_number(df))

\* str(df[column].dtype) of a column as the parser typed it: int64 for whole
\* numbers without a null, float64 for other numbers.
dtype_name(df, j) ==
  IF is_object(df, j) THEN "object"
  ELSE IF \A i \in Positions(df) : notna(df.data[i][j]) /\ df.data[i][j].d = 1
       THEN "int64" ELSE "float64"

\* df[column].nunique(): the number of distinct non-null values.
nunique(df, j) == Cardinality({df.data[i][j] : i \in {h \in Positions(df) : notna(df.data[h][j])}})

\* _create_quality_dataframe(df), when nothing in it raises: a row per column.
quality_frame(df) ==
  [header |-> << "Column", "Data Type", "Total Values", "Missing Values",
                 "Missing Percentage", "Unique Values", "Uniqueness Percentage" >>,
   labels |-> << >>,
   cells |-> [j \in 1..Len(df.columns) |->
                LET missing_count == len(df) - notna_sum(df, j)
                IN << Str(df.columns[j]), Str(dtype_name(df, j)), Num(len(df)),
                      Num(missing_count),
                      Rat(Percentage(missing_count, len(df)), 100),
                      Num(nunique(df, j)),
                      Rat(Percentage(nunique(df, j), len(df)), 100) >>]]

\* The elements of a sequence without those that equal an earlier element.
Unique(seq) ==
  FilterPos(seq, {i \in 1..Len(seq) : \A h \in 1..(i - 1) : seq[h] # seq[i]}, 1)

\* ', '.join(strs)
RECURSIVE Join(_)
Join(cells) ==
  IF cells = << >> THEN ""
  ELSE IF Len(cells) = 1 THEN cells[1].s
       ELSE cells[1].s \o ", " \o Join(Tail(cells))

\* ', '.join(df[column].dropna().astype(str).unique()[:5])
sample_values(df, j) ==
  LET u == Unique(NonNull(df, j))
  IN Str(Join(SubSeq(u, 1, Min(SampleValues, Len(u)))))

\* round(df[column].mean(), 2) if pd.notna(df[column].mean()) else 'N/A'
rounded_mean(df, j) ==
  LET m == mean(df, j)
  IN IF isnull(m) THEN Str("N/A")
     ELSE IF m.n >= 0 THEN Rat(Percentage(m.n, m.d * 100), 100)
          ELSE Rat(-Percentage(-m.n, m.d * 100), 100)

\* The keys col_info gets after the five every column has.
extra_keys(df, j) ==
  IF is_object(df, j) THEN << "Sample Values" >>
  ELSE << "Min Value", "Max Value", "Mean" >>

RECURSIVE all_extra_keys(_, _)
all_extra_keys(df, j) ==
  IF j > Len(df.columns) THEN << >>
  ELSE extra_keys(df, j) \o all_extra_keys(df, j + 1)

\* col_info[key] of column j; NaN for a key the column's col_info lacks.
col_info(df, j, key) ==
  CASE key = "Column Name" -> Str(df.columns[j])
    [] key = "Data Type" -> Str(dtype_name(df, j))
    [] key = "Non-Null Count" -> Num(notna_sum(df, j))
    [] key = "Null Count" -> Num(len(df) - notna_sum(df, j))
    [] key = "Sample Values" -> IF is_object(df, j) THEN sample_values(df, j) ELSE NaN
    [] key = "Min Value" -> IF is_object(df, j) THEN NaN ELSE min(df, j)
    [] key = "Max Value" -> IF is_object(df, j) THEN NaN ELSE max(df, j)
    [] key = "Mean" -> IF is_object(df, j) THEN NaN ELSE rounded_mean(df, j)

\* _create_column_info_dataframe(df), when nothing in it raises: a row per
\* column under the keys in the order the columns bring them ('Memory Usage
\* (bytes)', a number of the interpreter, is left out).
column_info_frame(df) ==
  LET keys == << "Column Name", "Data Type", "Non-Null Count", "Null Count" >>
                \o Unique(all_extra_keys(df, 1))
  IN [header |-> keys,
      labels |-> << >>,
      cells |-> [j \in 1..Len(df.columns) |->
                   [c \in 1..Len(keys) |-> col_info(df, j, keys[c])]]]

\* The frame a section's helper returns when nothing in it raises.
built(name, df) ==
  CASE name = "Data Sample" -> sample_frame(df)
    [] name = "Statistics" -> stats_frame(df)
    [] name = "Data Quality" -> quality_frame(df)
    [] name = "Column Info" -> column_info_frame(df)

\* The frames export_summary_report is called on: loaded uploads of one or two
\* columns, numbers with or without a null, and text.
ReportTables ==
  {read_table(TextContent("ascii", << "a", "s" >>, cells)) :
     cells \in {<< << Num(1), Str("x") >>, << Num(2), Str("y") >> >>,
                << << NaN, Str("x") >>, << Num(4), Str("x") >>, << Num(7), NaN >> >>,
                << << NaN, Str("x") >> >>}}
    \cup {read_table(TextContent("ascii", << "s" >>, << << Str("x") >>, << Str("z") >> >>))}

(***************************************************************************)
(* State.                                                                  *)
(***************************************************************************)
\* Requests in flight at once.
NReqs == 2

Reqs == 1..NReqs

VARIABLES
  disk,      \* the upload folder: file name -> [content, writers, torn]
  cookie,    \* the browser's session cookie: [has, current_file]
  req,       \* req[r]: the request r as sent: [method, form, missing_strategy]
  pc,        \* pc[r]: where the handler of request r stands
  session,   \* session[r]: the handler's session, read from the cookie
  heap,      \* heap[r]: the DataFrame objects request r has created
  df,        \* df[r]: the object the handler's variable df refers to (0: none)
  col,       \* col[r]: the column the fill_mode loop is at
  call,      \* call[r]: the argument of the stage call in progress
  hist,      \* hist[r]: the stage calls that have returned, in order
  resp,      \* resp[r]: the response of request r
  loadIn,    \* load_data alone: the file name and content given
  loadOut,   \* load_data alone: what it returned and logged
  report,    \* export_summary_report alone: its progress and result
  processor  \* data_processor, the DataProcessor of the module: its attributes

vars ==
  << disk, cookie, req, pc, session, heap, df, col, call, hist, resp,
     loadIn, loadOut, report, processor >>

OptionKeys == {"remove_duplicates", "handle_missing", "remove_outliers"}

\* request.form as the sequence of the option keys sent, in the order sent.
Forms ==
  {f \in UNION {[1..n -> OptionKeys] : n \in 0..3} :
     \A i, j \in DOMAIN f : i # j => f[i] # f[j]}

\* A variant of clean_options: a form that sends missing_strategy counts as
\* one that asks for handle_missing.
clean_options_by_strategy(r) ==
  {req[r].form[i] : i \in DOMAIN req[r].form}
    \cup IF req[r].missing_strategy # "absent" THEN {"handle_missing"} ELSE {}

\* clean_options = request.form.to_dict(): the keys, whatever their order.
clean_options(r) == {req[r].form[i] : i \in DOMAIN req[r].form}

\* clean_options.get('missing_strategy', 'drop')
missing_strategy(r) ==
  IF req[r].missing_strategy = "absent" THEN "drop" ELSE req[r].missing_strategy

NoSession == [has |-> FALSE, current_file |-> UploadName("")]

NoCall == [stage |-> "", arg |-> 0, before |-> NoFrame]

NoResponse == [kind |-> "", quality_info |-> NoQualityInfo]

Response(kind) == [kind |-> kind, quality_info |-> NoQualityInfo]

\* The frame the handler's df refers to.
Frame(r) == heap[r][df[r]]

NColumns(r) == Len(Frame(r).columns)

\* A returned stage call: the stage, the object passed and its value at the
\* call and at the return, the object returned and its value, whether the
\* stage raised, and the rows (positions of the frame passed) the anomaly
\* model flagged.
Returned(r, stage, before, after, ret, out, raised, flagged) ==
  [stage |-> stage, arg |-> df[r], before |-> before, after |-> after,
   ret |-> ret, out |-> out, raised |-> raised, flagged |-> flagged]

(***************************************************************************)
(* The /clean handler (routes.clean), one request r.                       *)
(***************************************************************************)
\* A variant of StageAfter: missing values are handled before duplicates are
\* removed.
StageAfterMissingFirst(stage) ==
  CASE stage = "load" -> "handle_missing"
    [] stage = "handle_missing" -> "remove_duplicates"
    [] stage = "remove_duplicates" -> "remove_outliers"
    [] stage = "remove_outliers" -> "save"

\* The order of the three "if ... in clean_options" blocks of the handler.
StageAfter(stage) ==
  CASE stage = "load" -> "remove_duplicates"
    [] stage = "remove_duplicates" -> "handle_missing"
    [] stage = "handle_missing" -> "remove_outliers"
    [] stage = "remove_outliers" -> "save"

\* The response goes out: a response that flashed a message or set
\* current_file carries the handler's session back as the cookie.
Respond(r, kind, sess) ==
  /\ resp' = [resp EXCEPT ![r] = Response(kind)]
  /\ session' = [session EXCEPT ![r] = sess]
  /\ cookie' = sess
  /\ pc' = [pc EXCEPT ![r] = "done"]

\* The request arrives with the browser's cookie; without a current_file the
\* handler redirects to the upload page.
Begin(r) ==
  /\ pc[r] = "sent"
  /\ IF cookie.has
     THEN /\ session' = [session EXCEPT ![r] = cookie]
          /\ pc' = [pc EXCEPT ![r] = "load"]
          /\ UNCHANGED << cookie, resp >>
     ELSE Respond(r, "redirect_upload", cookie)
  /\ UNCHANGED << disk, req, heap, df, col, call, hist, loadIn, loadOut, report, processor >>

\* What a read of the file finds: the content, or, while a writer has the file
\* open or after a write of it failed, the header and the rows written so far.
Readable(name) ==
  IF disk[name].writers = {} /\ ~disk[name].torn
  THEN {disk[name].content}
  ELSE {[disk[name].content EXCEPT !.cells = SubSeq(@, 1, n)] :
          n \in 0..Len(disk[name].content.cells)}

\* df = data_processor.load_data(file_path); None redirects to the upload page.
Load(r) ==
  /\ pc[r] = "load"
  /\ LET name == session[r].current_file
     IN \/ /\ name \in DOMAIN disk
           /\ \E content \in Readable(name) :
                LET loaded == load_data(processor, name, content).ret
                IN IF loaded.ok
                   THEN /\ heap' = [heap EXCEPT ![r] = << loaded.df >>]
                        /\ df' = [df EXCEPT ![r] = 1]
                        /\ pc' = [pc EXCEPT ![r] =
                                    IF req[r].method = "POST"
                                    THEN StageAfter("load") ELSE "quality"]
                        /\ UNCHANGED << cookie, session, resp >>
                   ELSE /\ Respond(r, "redirect_upload", session[r])
                        /\ UNCHANGED << heap, df >>
        \/ /\ name \notin DOMAIN disk
           /\ Respond(r, "redirect_upload", session[r])
           /\ UNCHANGED << heap, df >>
  /\ UNCHANGED << disk, req, col, call, hist, loadIn, loadOut, report, processor >>

\* GET: quality_info = data_processor.get_data_quality_info(df), rendered.
Quality(r) ==
  /\ pc[r] = "quality"
  /\ resp' = [resp EXCEPT ![r] =
                [kind |-> "render_clean",
                 quality_info |-> get_data_quality_info(Frame(r))]]
  /\ pc' = [pc EXCEPT ![r] = "done"]
  /\ UNCHANGED << disk, cookie, req, session, heap, df, col, call, hist,
                  loadIn, loadOut, report, processor >>

\* A stage returns: the handler's df is bound to what it returned.
Return(r, stage, before, objects, ret, raised, flagged) ==
  /\ heap' = [heap EXCEPT ![r] = objects]
  /\ df' = [df EXCEPT ![r] = ret]
  /\ hist' = [hist EXCEPT ![r] =
                Append(@, Returned(r, stage, before, objects[df[r]], ret, objects[ret],
                                   raised, flagged))]
  /\ call' = [call EXCEPT ![r] = NoCall]
  /\ pc' = [pc EXCEPT ![r] = StageAfter(stage)]

\* The stage calls of request r that raised.
Raises(r) == Cardinality({i \in DOMAIN hist[r] : hist[r][i].raised})

\* A stage call may raise (its "except Exception" then returns df).
MayRaise(r) == Raises(r) < MaxRaises

\* A stage whose option is not in the form is not called.
Skip(r, stage) ==
  /\ pc' = [pc EXCEPT ![r] = StageAfter(stage)]
  /\ UNCHANGED << heap, df, hist, call >>

\* if 'remove_duplicates' in clean_options: df = remove_duplicates(df).  The
\* stage returns df.drop_duplicates(), a new frame, or, when it raises, df.
RemoveDuplicates(r) ==
  /\ pc[r] = "remove_duplicates"
  /\ \/ /\ "remove_duplicates" \notin clean_options(r)
        /\ Skip(r, "remove_duplicates")
     \/ /\ "remove_duplicates" \in clean_options(r)
        /\ Return(r, "remove_duplicates", Frame(r),
                  Append(heap[r], drop_duplicates(Frame(r))), Len(heap[r]) + 1, FALSE, {})
     \/ /\ "remove_duplicates" \in clean_options(r)
        /\ MayRaise(r)
        /\ Return(r, "remove_duplicates", Frame(r), heap[r], df[r], TRUE, {})
  /\ UNCHANGED << disk, cookie, req, session, col, resp, loadIn, loadOut, report, processor >>

\* if 'handle_missing' in clean_options: df = handle_missing_values(df, strategy).
\* drop returns df.dropna(), a new frame; fill_mean and fill_median assign the
\* filled columns to df itself and return it; fill_mode enters its loop over
\* the columns; any other strategy returns df, and nothing in that branch can
\* raise; a stage that raises returns df.
HandleMissing(r) ==
  /\ pc[r] = "handle_missing"
  /\ \/ /\ "handle_missing" \notin clean_options(r)
        /\ Skip(r, "handle_missing")
        /\ UNCHANGED col
     \/ /\ "handle_missing" \in clean_options(r)
        /\ strategy_branch(missing_strategy(r)) = "drop"
        /\ Return(r, "handle_missing", Frame(r),
                  Append(heap[r], dropna(Frame(r))), Len(heap[r]) + 1, FALSE, {})
        /\ UNCHANGED col
     \/ /\ "handle_missing" \in clean_options(r)
        /\ strategy_branch(missing_strategy(r)) = "fill_mean"
        /\ Return(r, "handle_missing", Frame(r),
                  [heap[r] EXCEPT ![df[r]] = fill_mean(@)], df[r], FALSE, {})
        /\ UNCHANGED col
     \/ /\ "handle_missing" \in clean_options(r)
        /\ strategy_branch(missing_strategy(r)) = "fill_median"
        /\ Return(r, "handle_missing", Frame(r),
                  [heap[r] EXCEPT ![df[r]] = fill_median(@)], df[r], FALSE, {})
        /\ UNCHANGED col
     \/ /\ "handle_missing" \in clean_options(r)
        /\ strategy_branch(missing_strategy(r)) = "fill_mode"
        /\ call' = [call EXCEPT ![r] =
                      [stage |-> "handle_missing", arg |-> df[r], before |-> Frame(r)]]
        /\ col' = [col EXCEPT ![r] = 1]
        /\ pc' = [pc EXCEPT ![r] = "fill_mode"]
        /\ UNCHANGED << heap, df, hist >>
     \/ /\ "handle_missing" \in clean_options(r)
        /\ strategy_branch(missing_strategy(r)) = "else"
        /\ Return(r, "handle_missing", Frame(r), heap[r], df[r], FALSE, {})
        /\ UNCHANGED col
     \/ /\ "handle_missing" \in clean_options(r)
        /\ strategy_branch(missing_strategy(r)) # "else"
        /\ MayRaise(r)
        /\ Return(r, "handle_missing", Frame(r), heap[r], df[r], TRUE, {})
        /\ UNCHANGED col
  /\ UNCHANGED << disk, cookie, req, session, resp, loadIn, loadOut, report, processor >>

\* One turn of "for col in df.columns" of fill_mode: the column is filled in df
\* itself; after the last column df is returned; a turn that raises ends the
\* loop and df is returned as it then is.
FillMode(r) ==
  /\ pc[r] = "fill_mode"
  /\ \/ /\ col[r] <= NColumns(r)
        /\ heap' = [heap EXCEPT ![r][df[r]] = fill_mode_column(@, col[r])]
        /\ col' = [col EXCEPT ![r] = @ + 1]
        /\ UNCHANGED << df, hist, call, pc >>
     \/ /\ col[r] > NColumns(r)
        /\ Return(r, "handle_missing", call[r].before, heap[r], df[r], FALSE, {})
        /\ col' = [col EXCEPT ![r] = 0]
     \/ /\ col[r] <= NColumns(r)
        /\ MayRaise(r)
        /\ Return(r, "handle_missing", call[r].before, heap[r], df[r], TRUE, {})
        /\ col' = [col EXCEPT ![r] = 0]
  /\ UNCHANGED << disk, cookie, req, session, resp, loadIn, loadOut, report, processor >>

\* if 'remove_outliers' in clean_options: df = remove_outliers(df).  The stage
\* returns df on its early returns and when it raises, else the new frame
\* df.loc[non_outlier_indices].
RemoveOutliers(r) ==
  /\ pc[r] = "remove_outliers"
  /\ \/ /\ "remove_outliers" \notin clean_options(r)
        /\ Skip(r, "remove_outliers")
     \/ /\ "remove_outliers" \in clean_options(r)
        /\ ~runs_model(Frame(r))
        /\ Return(r, "remove_outliers", Frame(r), heap[r], df[r], FALSE, {})
     \/ /\ "remove_outliers" \in clean_options(r)
        /\ runs_model(Frame(r))
        /\ \E flagged \in Flaggable(Frame(r)) :
             Return(r, "remove_outliers", Frame(r),
                    Append(heap[r], outliers_removed(Frame(r), flagged)),
                    Len(heap[r]) + 1, FALSE, flagged)
     \/ /\ "remove_outliers" \in clean_options(r)
        /\ MayRaise(r)
        /\ Return(r, "remove_outliers", Frame(r), heap[r], df[r], TRUE, {})
  /\ UNCHANGED << disk, cookie, req, session, col, resp, loadIn, loadOut, report, processor >>

\* A variant of Except: current_file was set to the cleaned name before the
\* write.
ExceptAfterSessionSet(r) ==
  Respond(r, "redirect_preview",
          [has |-> TRUE, current_file |-> cleaned_filename(session[r].current_file)])

\* The handler's "except Exception": the error is flashed and the browser is
\* sent to the preview page; session['current_file'] is as it was.
Except(r) == Respond(r, "redirect_preview", session[r])

\* The content of the file the handler writes: to_csv for a name that ends in
\* .csv, to_excel for any other.
Written(r) ==
  IF session[r].current_file.ext = "csv" THEN to_csv(Frame(r)) ELSE to_excel(Frame(r))

\* The cleaned frame is written to cleaned_<current_file>: the file is opened
\* (created or truncated) for writing, or the write raises before that.
SaveOpen(r) ==
  /\ pc[r] = "save"
  /\ LET name == cleaned_filename(session[r].current_file)
         open == IF name \in DOMAIN disk THEN disk[name].writers ELSE {}
     IN \/ /\ disk' = [n \in DOMAIN disk \cup {name} |->
                         IF n = name
                         THEN [content |-> Written(r), writers |-> open \cup {r},
                               torn |-> open # {}]
                         ELSE disk[n]]
           /\ pc' = [pc EXCEPT ![r] = "write"]
           /\ UNCHANGED << cookie, session, resp >>
        \/ /\ Except(r)
           /\ UNCHANGED disk
  /\ UNCHANGED << req, heap, df, col, call, hist, loadIn, loadOut, report, processor >>

\* The write ends: the file is complete and closed, current_file is set to its
\* name and the browser is sent to the dashboard; or the write raises and
\* leaves the file torn, with the rows written so far.
SaveClose(r) ==
  /\ pc[r] = "write"
  /\ LET name == cleaned_filename(session[r].current_file)
     IN \/ /\ disk' = [disk EXCEPT ![name].writers = @ \ {r}]
           /\ Respond(r, "redirect_dashboard",
                      [has |-> TRUE, current_file |-> name])
        \/ /\ disk' = [disk EXCEPT ![name].writers = @ \ {r}, ![name].torn = TRUE]
           /\ Except(r)
  /\ UNCHANGED << req, heap, df, col, call, hist, loadIn, loadOut, report, processor >>

Handler(r) ==
  \/ Begin(r)
  \/ Load(r)
  \/ Quality(r)
  \/ RemoveDuplicates(r)
  \/ HandleMissing(r)
  \/ FillMode(r)
  \/ RemoveOutliers(r)
  \/ SaveOpen(r)
  \/ SaveClose(r)

(***************************************************************************)
(* One cleaning request on an uploaded file.                               *)
(***************************************************************************)
\* The strategies sent with a form: any with handle_missing; without it the
\* field is not sent or sent with a value that is not read.
StrategiesSent(form) ==
  IF \E i \in DOMAIN form : form[i] = "handle_missing"
  THEN Strategies \cup {"absent"}
  ELSE {"absent", "fill_mean"}

Requests ==
  {[method |-> "POST", form |-> f, missing_strategy |-> st] :
     f \in Forms, st \in Strategies \cup {"absent"}}

PostRequests == {q \in Requests : q.missing_strategy \in StrategiesSent(q.form)}

GetRequest == [method |-> "GET", form |-> << >>, missing_strategy |-> "absent"]

NoRequest == [method |-> "", form |-> << >>, missing_strategy |-> "absent"]

Stored(content) == [content |-> content, writers |-> {}, torn |-> FALSE]

NoLoad == [name |-> UploadName(""), content |-> TextContent("ascii", << >>, << >>)]

NoLoadResult ==
  [called |-> FALSE, ret |-> None, tried |-> 0, reads |-> 0, warnings |-> << >>]

\* No call of export_summary_report is under way.
NoReport == [pc |-> "none", df |-> NoFrame, sheets |-> << >>, failed |-> {}, ret |-> ""]

\* The state common to the initial states: no handler has started.
Idle ==
  /\ session = [r \in Reqs |-> NoSession]
  /\ heap = [r \in Reqs |-> << >>]
  /\ df = [r \in Reqs |-> 0]
  /\ col = [r \in Reqs |-> 0]
  /\ call = [r \in Reqs |-> NoCall]
  /\ hist = [r \in Reqs |-> << >>]
  /\ resp = [r \in Reqs |-> NoResponse]

\* A file has been uploaded (upload saved it and set current_file) and one
\* request for /clean is sent: a POST with a form, or a GET for the quality
\* report.
Init ==
  /\ \E q \in PostRequests \cup {GetRequest} :
       /\ req = [r \in Reqs |-> IF r = 1 THEN q ELSE NoRequest]
       /\ \E cells \in IF q.method = "GET" THEN ViewedTables ELSE UploadedTables :
            disk = [n \in {UploadName("csv")} |->
                      Stored(TextContent("ascii", Columns, cells))]
  /\ cookie = [has |-> TRUE, current_file |-> UploadName("csv")]
  /\ pc = [r \in Reqs |-> IF r = 1 THEN "sent" ELSE "none"]
  /\ Idle
  /\ loadIn = NoLoad
  /\ loadOut = NoLoadResult
  /\ report = NoReport
  /\ processor = DataProcessor

Next == \E r \in Reqs : Handler(r)

Spec == Init /\ [][Next]_vars

(***************************************************************************)
(* Properties of one cleaning request (Spec).                              *)
(***************************************************************************)
\* The frame load_data gave the handler: the uploaded file, parsed.
Uploaded == load_data(processor, UploadName("csv"), disk[UploadName("csv")].content).ret.df

\* All stages of request r are over and the cleaned frame is about to be, or
\* is being, written.
Cleaned(r) == pc[r] \in {"save", "write"}

StageRank(stage) ==
  CASE stage = "remove_duplicates" -> 1
    [] stage = "handle_missing" -> 2
    [] stage = "remove_outliers" -> 3

HasOption(r, key) == \E i \in DOMAIN req[r].form : req[r].form[i] = key

\* The rows the anomaly model flagged in request r (none if it was not run).
FlaggedIn(r) ==
  UNION {hist[r][i].flagged : i \in DOMAIN hist[r]}

\* Deduplication, then missing values, then outliers, each on the frame the
\* stage before returned.
InOrder(r, t) ==
  LET t1 == IF HasOption(r, "remove_duplicates") THEN drop_duplicates(t) ELSE t
      t2 == IF HasOption(r, "handle_missing")
            THEN handle_missing_values(t1, missing_strategy(r)) ELSE t1
  IN IF HasOption(r, "remove_outliers") THEN remove_outliers(t2, FlaggedIn(r)) ELSE t2

\* C1: the stages of a cleaning request run in the order deduplication,
\* missing values, outliers, whatever the order of the options in the form:
\* the calls made are those of the options sent, in that order, each call is
\* passed the frame the call before returned (the first the loaded table), the
\* frame written is the one the last call returned, and, when no stage raised,
\* it is the three functions applied in that order to the loaded table.
C1_StagesInOrder ==
  \A r \in Reqs :
    Cleaned(r) =>
      LET h == hist[r]
      IN /\ \A i, j \in DOMAIN h : i < j => StageRank(h[i].stage) < StageRank(h[j].stage)
         /\ {h[i].stage : i \in DOMAIN h} = {req[r].form[i] : i \in DOMAIN req[r].form}
         /\ \A i \in DOMAIN h :
              h[i].before = IF i = 1 THEN Uploaded ELSE h[i - 1].out
         /\ Frame(r) = IF h = << >> THEN Uploaded ELSE h[Len(h)].out
         /\ Raises(r) = 0 => Frame(r) = InOrder(r, Uploaded)

\* C1's case: the options are sent in the reverse order, deduplication drops a
\* row, and the mean that fills column a is the mean of the deduplicated rows,
\* which is not the mean of the loaded rows.
C1_Witness ==
  \E r \in Reqs :
    /\ Cleaned(r)
    /\ req[r].form = << "remove_outliers", "handle_missing", "remove_duplicates" >>
    /\ req[r].missing_strategy = "fill_mean"
    /\ Raises(r) = 0
    /\ Len(hist[r]) = 3
    /\ len(hist[r][1].out) < len(Uploaded)
    /\ hist[r][2].out # hist[r][2].before
    /\ mean(hist[r][2].before, 1) # mean(Uploaded, 1)
    /\ \E i \in Positions(Frame(r)) : Frame(r).data[i][1] = mean(hist[r][2].before, 1)

\* C2: a cleaning request with no option selected writes the loaded table:
\* the frame to be written is the loaded one, and the file written holds its
\* columns and its rows, in order, and reads back as the same frame.
C2_NoOptionsIdentity ==
  \A r \in Reqs :
    (req[r].method = "POST" /\ req[r].form = << >>) =>
      /\ Cleaned(r) => Frame(r) = Uploaded
      /\ (pc[r] = "done" /\ resp[r].kind = "redirect_dashboard") =>
           /\ disk[session[r].current_file].content.header = Uploaded.columns
           /\ disk[session[r].current_file].content.cells = Uploaded.data
           /\ load_data(processor, session[r].current_file,
                        disk[session[r].current_file].content).ret = Some(Uploaded)

\* C2's case: a form without options, sent with a missing_strategy field, on a
\* table with nulls and duplicate rows, has been written.
C2_Witness ==
  \E r \in Reqs :
    /\ req[r].method = "POST" /\ req[r].form = << >>
    /\ req[r].missing_strategy = "fill_mean"
    /\ pc[r] = "done" /\ resp[r].kind = "redirect_dashboard"
    /\ session[r].current_file = cleaned_filename(UploadName("csv"))
    /\ dropna(Uploaded) # Uploaded
    /\ drop_duplicates(Uploaded) # Uploaded

\* The stage calls of request r in which remove_outliers fitted its model.
ModelRuns(r) ==
  {i \in DOMAIN hist[r] :
     /\ hist[r][i].stage = "remove_outliers"
     /\ ~hist[r][i].raised
     /\ runs_model(hist[r][i].before)}

\* C3 (as claimed): after remove_outliers has run its model, every row with a
\* null in an evaluated column is still in the returned frame, and only rows
\* the model flagged are gone.
C3_NullRowsRetained ==
  \A r \in Reqs : \A i \in ModelRuns(r) :
    LET t == hist[r][i].before
    IN \A p \in Positions(t) :
         (\E q \in Positions(hist[r][i].out) : hist[r][i].out.index[q] = t.index[p])
           <=> p \notin hist[r][i].flagged

\* The quality reports rendered: each with the frame it is about.
Rendered(r) == pc[r] = "done" /\ resp[r].kind = "render_clean"

\* Whether column j of t holds a value strictly below Q1 - 1.5 IQR or strictly
\* above Q3 + 1.5 IQR.
HasIqrOutlier(t, j) ==
  LET q1 == quantile(t, j, 1)
      q3 == quantile(t, j, 3)
      reach == RScale(RSub(q3, q1), 3, 2)
  IN \E i \in Positions(t) :
       /\ notna(t.data[i][j])
       /\ \/ RLess(t.data[i][j], RSub(q1, reach))
          \/ RLess(RAdd(q3, reach), t.data[i][j])

C5_InputNotMutated ==
  \A r \in Reqs : \A i \in DOMAIN hist[r] :
    hist[r][i].after = hist[r][i].before

\* C6 (as claimed): a stage that raises returns the frame as it was when the
\* stage started.
C6_RaisedStageReturnsInput ==
  \A r \in Reqs : \A i \in DOMAIN hist[r] :
    hist[r][i].raised => hist[r][i].out = hist[r][i].before

\* C10: deduplication is idempotent, and the frame it returns holds no two
\* rows equal in all columns.
C10_DedupIdempotent ==
  \A r \in Reqs : \A i \in DOMAIN hist[r] :
    (hist[r][i].stage = "remove_duplicates" /\ ~hist[r][i].raised) =>
      LET once == hist[r][i].out
      IN /\ drop_duplicates(once) = once
         /\ \A p, q \in Positions(once) : p < q => once.data[p] # once.data[q]

\* C10's case: remove_duplicates has dropped a row that equals an earlier row
\* which is not the row right above it.
C10_Witness ==
  \E r \in Reqs : \E i \in DOMAIN hist[r] :
    /\ hist[r][i].stage = "remove_duplicates" /\ ~hist[r][i].raised
    /\ len(hist[r][i].out) < len(hist[r][i].before)
    /\ \E p, q \in Positions(hist[r][i].before) :
         /\ p + 1 < q
         /\ hist[r][i].before.data[p] = hist[r][i].before.data[q]
         /\ hist[r][i].before.data[q - 1] # hist[r][i].before.data[q]

(***************************************************************************)
(* load_data alone (SpecLoad): one call on a file of any extension, byte   *)
(* class and size, by a processor whose row cap is the default or has been *)
(* set to a small number.                                                  *)
(***************************************************************************)
Extensions == {"csv", "CSV", "xlsx", "XLS", "xls", "txt", "json", ""}

ByteClasses == {"ascii", "utf8", "high", "undefined1252"}

\* A table of one column and n rows.
Rows(n) == [i \in 1..n |-> << Num(i) >>]

\* The files: as text of every byte class or as a workbook, with no line at
\* all, a header line alone, or rows.
LoadContents ==
  {TextContent(b, << "a" >>, Rows(n)) : b \in ByteClasses, n \in 0..(MaxCap + MaxOver)}
    \cup {TextContent(b, << >>, << >>) : b \in ByteClasses}
    \cup {Workbook(<< "a" >>, Rows(n)) : n \in 0..(MaxCap + MaxOver)}

LoadInputs ==
  {[name |-> UploadName(e), content |-> c] : e \in Extensions, c \in LoadContents}

\* The processor as constructed, or with max_rows set to a small number, or
\* with a shorter list of encodings.
Processors ==
  {DataProcessor}
    \cup {[DataProcessor EXCEPT !.max_rows = m] : m \in 1..MaxCap}
    \cup {[DataProcessor EXCEPT !.encodings = e] :
            e \in {<< "utf-8" >>, << "utf-8", "cp1252" >>}}

InitLoad ==
  /\ processor \in Processors
  /\ loadIn \in LoadInputs
  /\ loadOut = NoLoadResult
  /\ disk = << >>
  /\ cookie = NoSession
  /\ req = [r \in Reqs |-> NoRequest]
  /\ pc = [r \in Reqs |-> "none"]
  /\ Idle
  /\ report = NoReport

\* df = data_processor.load_data(file_path)
LoadData ==
  /\ ~loadOut.called
  /\ LET out == load_data(processor, loadIn.name, loadIn.content)
     IN loadOut' = [called |-> TRUE, ret |-> out.ret, tried |-> out.tried,
                    reads |-> out.reads,
                    warnings |-> out.warnings]
  /\ UNCHANGED << disk, cookie, req, pc, session, heap, df, col, call, hist, resp,
                  loadIn, report, processor >>

NextLoad == LoadData

SpecLoad == InitLoad /\ [][NextLoad]_vars

\* The frame a parser finds in the file given to load_data.
Parsed == read_table(loadIn.content)

\* The file given to load_data, cut after its first max_rows rows.
CutAtCap ==
  [loadIn.content EXCEPT !.cells = SubSeq(@, 1, Min(Len(@), processor.max_rows))]

\* C8 (as claimed): when the file holds more rows than max_rows, the value
\* load_data returns tells the caller so: it is not the value returned for
\* the file that holds those first max_rows rows and no more.
C8_TruncationObservable ==
  (loadOut.called /\ loadOut.ret.ok /\ len(Parsed) > processor.max_rows) =>
    loadOut.ret # load_data(processor, loadIn.name, CutAtCap).ret

\* C8 (amended): load_data returns the first max_rows rows of a longer input,
\* in their order, and every row of an input of at most max_rows rows; the
\* truncation is written to the log and nothing in the value returned shows
\* it: the value is the one returned for the input cut after max_rows rows.
C8_FirstRowsOnly ==
  (loadOut.called /\ loadOut.ret.ok) =>
    /\ loadOut.ret.df.columns = Parsed.columns
    /\ len(loadOut.ret.df) = Min(len(Parsed), processor.max_rows)
    /\ \A i \in 1..len(loadOut.ret.df) :
         /\ loadOut.ret.df.data[i] = Parsed.data[i]
         /\ loadOut.ret.df.index[i] = Parsed.index[i]
    /\ (loadOut.warnings # << >>) <=> len(Parsed) > processor.max_rows
    /\ loadOut.ret = load_data(processor, loadIn.name, CutAtCap).ret

\* C8's case: a file with more rows than max_rows has been loaded.
C8_Witness ==
  /\ loadOut.called
  /\ loadOut.ret.ok
  /\ len(Parsed) > processor.max_rows
  /\ len(loadOut.ret.df) = processor.max_rows
  /\ loadOut.warnings = << "Dataset too large" >>

\* The encodings of the list, by position, under which the file's bytes
\* decode.
Decoding == {k \in DOMAIN processor.encodings : Decodes(loadIn.content.bytes, processor.encodings[k])}

IsCsv == lower(loadIn.name.ext) = "csv"

\* C11 (as claimed): load_data of a delimited-text file returns None only if
\* every encoding of the list raised a decode error.
C11_NoneOnlyIfAllFail ==
  (loadOut.called /\ IsCsv /\ ~loadOut.ret.ok) => Decoding = {}

\* C11 (amended): the encodings are tried in the order of the list up to the
\* first that decodes and none after it; the table read under that encoding
\* is returned; None is returned when no encoding decodes, and also when the
\* read under the first that decodes raises another error or yields an empty
\* table.
C11_FirstDecodingEncoding ==
  (loadOut.called /\ IsCsv) =>
    /\ Decoding = {} =>
         /\ loadOut.tried = Len(processor.encodings)
         /\ loadOut.ret = None
    /\ Decoding # {} =>
         /\ loadOut.tried \in Decoding
         /\ \A k \in Decoding : loadOut.tried <= k
         /\ LET parses == loadIn.content.format = "text" /\ loadIn.content.header # << >>
            IN IF parses /\ ~empty(Parsed)
               THEN loadOut.ret = Some(head(Parsed, Min(len(Parsed), processor.max_rows)))
               ELSE loadOut.ret = None

\* C11's case: a file that does not decode as utf-8 has been loaded under the
\* second encoding of the default list.
C11_Witness ==
  /\ loadOut.called
  /\ IsCsv
  /\ processor.encodings = DataProcessor.encodings
  /\ 1 \notin Decoding
  /\ loadOut.tried = 2
  /\ loadOut.ret.ok

Supported == lower(loadIn.name.ext) \in {"csv", "xlsx", "xls"}

\* C12: for a path whose extension, in lower case, is not csv, xlsx or xls,
\* load_data returns None and has made no read of the file; for any other
\* path it has read the file.
C12_UnsupportedNotRead ==
  loadOut.called =>
    /\ ~Supported => (loadOut.ret = None /\ loadOut.reads = 0)
    /\ Supported => loadOut.reads >= 1

\* C12's case: a file that a parser could read has been refused for its
\* extension.
C12_Witness ==
  /\ loadOut.called
  /\ loadIn.name.ext = "txt"
  /\ loadIn.content.format = "text"
  /\ ~empty(Parsed)
  /\ loadOut.ret = None
  /\ loadOut.reads = 0

(***************************************************************************)
(* Two /clean requests of one browser session (SpecConc): both are sent    *)
(* before either is answered, and the server runs their handlers           *)
(* concurrently, a step of one between steps of the other.                 *)
(***************************************************************************)
\* The requests sent: for the quality report, with no option, and with the
\* three options under a strategy.
ConcRequests ==
  {GetRequest,
   [method |-> "POST", form |-> << >>, missing_strategy |-> "absent"]}
    \cup {[method |-> "POST",
           form |-> << "remove_duplicates", "handle_missing", "remove_outliers" >>,
           missing_strategy |-> st] : st \in {"fill_mode", "none"}}

\* The uploaded tables: a short one with a duplicate row and a null, and a
\* long one with a null, on which the anomaly model runs.
ConcTables ==
  {Cells(<< "O", "O", "S" >>, ShortFill), Cells(<< "A", "N" >>, LongFill)}

\* The session and the upload folder when the requests arrive: a file has been
\* uploaded; or the session names a file that is no longer in the folder; or
\* nothing has been uploaded in this session.
InitConc ==
  /\ req \in [Reqs -> ConcRequests]
  /\ \/ /\ \E cells \in ConcTables :
             disk = [n \in {UploadName("csv")} |->
                       Stored(TextContent("ascii", Columns, cells))]
        /\ cookie = [has |-> TRUE, current_file |-> UploadName("csv")]
     \/ /\ disk = << >>
        /\ cookie \in {[has |-> TRUE, current_file |-> UploadName("csv")], NoSession}
  /\ pc = [r \in Reqs |-> "sent"]
  /\ Idle
  /\ loadIn = NoLoad
  /\ loadOut = NoLoadResult
  /\ report = NoReport
  /\ processor = DataProcessor

SpecConc == InitConc /\ [][Next]_vars

\* The requests whose handler is between loading its input and its response.
Working == {r \in Reqs : pc[r] \notin {"none", "sent", "load", "done"}}

\* C7 (as claimed): no file has two writers at a time, and no request writes
\* the file that a request at work has loaded.
C7_NoWriteRace ==
  /\ \A n \in DOMAIN disk : Cardinality(disk[n].writers) <= 1
  /\ \A n \in DOMAIN disk : \A r \in Working :
       n = session[r].current_file => disk[n].writers = {}

(***************************************************************************)
(* ExportHandler.export_summary_report alone (SpecReport): one call on a   *)
(* loaded frame.  A sheet of the workbook is [sheet_name, frame].          *)
(***************************************************************************)
InitReport ==
  /\ \E t \in ReportTables :
       report = [pc |-> "Data Sample", df |-> t, sheets |-> << >>, failed |-> {},
                 ret |-> "running"]
  /\ disk = << >>
  /\ cookie = NoSession
  /\ req = [r \in Reqs |-> NoRequest]
  /\ pc = [r \in Reqs |-> "none"]
  /\ Idle
  /\ loadIn = NoLoad
  /\ loadOut = NoLoadResult
  /\ processor = DataProcessor

\* The section after a section: the next sheet, or the end of the with block.
SectionAfter(name) ==
  CASE name = "Data Sample" -> "Statistics"
    [] name = "Statistics" -> "Data Quality"
    [] name = "Data Quality" -> "Column Info"
    [] name = "Column Info" -> "close"

\* One section of export_summary_report: the frame is built (a helper that
\* raises inside returns the Error frame; the data sample has no helper) and
\* written to its sheet; a write that raises leaves the with block for the
\* "except Exception" of export_summary_report, which returns None.
Section(name) ==
  /\ report.pc = name
  /\ \/ \* built and written
        report' = [report EXCEPT !.pc = SectionAfter(name),
                                 !.sheets = Append(@, [sheet_name |-> name,
                                                       frame |-> built(name, report.df)])]
     \/ \* the helper caught an exception; its Error frame is written
        /\ name # "Data Sample"
        /\ report' = [report EXCEPT !.pc = SectionAfter(name),
                                    !.failed = @ \cup {name},
                                    !.sheets = Append(@, [sheet_name |-> name,
                                                          frame |-> ErrorFrame])]
     \/ \* to_excel raises
        report' = [report EXCEPT !.pc = "done", !.failed = @ \cup {name},
                                 !.ret = "None"]
  /\ UNCHANGED << disk, cookie, req, pc, session, heap, df, col, call, hist, resp,
                  loadIn, loadOut, processor >>

DataSample == Section("Data Sample")

Statistics == Section("Statistics")

DataQuality == Section("Data Quality")

ColumnInfo == Section("Column Info")

\* The with block ends: the writer saves the workbook and filepath is
\* returned, or the save raises and None is returned.
Close ==
  /\ report.pc = "close"
  /\ \/ report' = [report EXCEPT !.pc = "done", !.ret = "filepath"]
     \/ report' = [report EXCEPT !.pc = "done", !.failed = @ \cup {"close"},
                                 !.ret = "None"]
  /\ UNCHANGED << disk, cookie, req, pc, session, heap, df, col, call, hist, resp,
                  loadIn, loadOut, processor >>

NextReport == DataSample \/ Statistics \/ DataQuality \/ ColumnInfo \/ Close

SpecReport == InitReport /\ [][NextReport]_vars

\* The sheet of a name in the workbook, if it has been written.
Sheets(name) ==
  {report.sheets[i] : i \in {h \in DOMAIN report.sheets : report.sheets[h].sheet_name = name}}

\* C9 (as claimed): when a section has failed, in its build or in its write,
\* and the workbook itself could be saved, the report is produced with the
\* four sheets, the sheet of a failed section holding the one diagnostic row.
C9_SectionsIndependent ==
  (report.pc = "done" /\ "close" \notin report.failed) =>
    /\ report.ret = "filepath"
    /\ \A name \in SheetNames :
         /\ Sheets(name) # {}
         /\ name \in report.failed => Sheets(name) = {[sheet_name |-> name, frame |-> ErrorFrame]}

\* The part of C9 the helpers keep: a helper that raises inside costs no
\* sheet; its sheet holds the diagnostic row and the other sheets are written
\* as built.
C9_HelperFailureContained ==
  (report.pc = "done" /\ report.ret = "filepath") =>
    \A name \in SheetNames :
      Sheets(name) =
        {[sheet_name |-> name,
          frame |-> IF name \in report.failed THEN ErrorFrame ELSE built(name, report.df)]}

(***************************************************************************)
(* The cleaning stages alone (SpecStage): a caller passes a frame to the   *)
(* stages its options name, in the handler's order, each stage being       *)
(* passed what the stage before returned.                                  *)
(***************************************************************************)
\* The head rows of the long frames.
LongStageHeads ==
  {<< "A", "A", "B", "B" >>, << "A", "B" >>, << "A", "A" >>, << "O", "N" >>}

\* A frame as a parser types it.
Typed(cells) == read_table(TextContent("ascii", Columns, cells))

\* A table of n rows whose four columns all hold text.
TextOnly(n) == [i \in 1..n |-> << Str("x"), Str("y"), Str("x"), Str("y") >>]

\* The frames passed: parsed tables of 1..StageLen rows; those of them whose
\* column s holds no value, with s typed as text (object) by the caller; long
\* tables, of LongFill - 1 or LongFill plain rows under a head; and tables
\* without a numeric column.
StageFrames ==
  LET short == {Typed(Cells(kinds, 0)) :
                  kinds \in UNION {[1..n -> Kinds] : n \in 1..StageLen}}
  IN short
       \cup {[t EXCEPT !.dtypes[3] = "object"] : t \in {u \in short : notna_sum(u, 3) = 0}}
       \cup {Typed(Cells(kinds, f)) : kinds \in LongStageHeads, f \in {LongFill - 1, LongFill}}
       \cup {Typed(TextOnly(n)) : n \in {1, LongFill + 1}}

InitStage ==
  /\ \E q \in PostRequests : req = [r \in Reqs |-> IF r = 1 THEN q ELSE NoRequest]
  /\ \E t \in StageFrames : heap = [r \in Reqs |-> IF r = 1 THEN << t >> ELSE << >>]
  /\ df = [r \in Reqs |-> IF r = 1 THEN 1 ELSE 0]
  /\ pc = [r \in Reqs |-> IF r = 1 THEN StageAfter("load") ELSE "none"]
  /\ session = [r \in Reqs |-> NoSession]
  /\ col = [r \in Reqs |-> 0]
  /\ call = [r \in Reqs |-> NoCall]
  /\ hist = [r \in Reqs |-> << >>]
  /\ resp = [r \in Reqs |-> NoResponse]
  /\ disk = << >>
  /\ cookie = NoSession
  /\ loadIn = NoLoad
  /\ loadOut = NoLoadResult
  /\ report = NoReport
  /\ processor = DataProcessor

Stage(r) ==
  \/ RemoveDuplicates(r)
  \/ HandleMissing(r)
  \/ FillMode(r)
  \/ RemoveOutliers(r)

NextStage == \E r \in Reqs : Stage(r)

SpecStage == InitStage /\ [][NextStage]_vars

\* The calls of handle_missing_values under a strategy that have returned
\* without raising, as (request, call) pairs.
Filled(strategy) ==
  {c \in UNION {{<< r, i >> : i \in DOMAIN hist[r]} : r \in Reqs} :
     /\ hist[c[1]][c[2]].stage = "handle_missing"
     /\ ~hist[c[1]][c[2]].raised
     /\ missing_strategy(c[1]) = strategy}

\* The mean (fill_mean) or median (fill_median) of column j of t.
Centre(strategy, t, j) == IF strategy = "fill_mean" THEN mean(t, j) ELSE median(t, j)

\* The frame is the other but for the cells: the same columns, dtypes and
\* index, and as many rows.
SameShape(t, u) ==
  /\ t.columns = u.columns
  /\ t.dtypes = u.dtypes
  /\ t.index = u.index
  /\ len(t) = len(u)

\* C13 (as claimed): fill_mean (fill_median) leaves no null in a numeric
\* column: each is replaced by the mean (median) of the column's non-null
\* values.
C13_EveryNullFilled ==
  \A strategy \in {"fill_mean", "fill_median"} : \A c \in Filled(strategy) :
    LET t == hist[c[1]][c[2]].before
        u == hist[c[1]][c[2]].out
    IN \A j \in select_dtypes_number(t) : \A i \in Positions(t) :
         isnull(t.data[i][j]) =>
           (notna(u.data[i][j]) /\ u.data[i][j] = Centre(strategy, t, j))

\* C13 (amended): fill_mean (fill_median) replaces every null of a numeric
\* column that holds a value with the mean (median) of the column's non-null
\* values; a numeric column that holds no value stays null; non-null values
\* and the columns that are not numeric are unchanged, and so is the number of
\* rows.
C13_NullsFilledWhereValued ==
  \A strategy \in {"fill_mean", "fill_median"} : \A c \in Filled(strategy) :
    LET t == hist[c[1]][c[2]].before
        u == hist[c[1]][c[2]].out
    IN /\ SameShape(t, u)
       /\ \A j \in ColumnPositions(t) : \A i \in Positions(t) :
            u.data[i][j] =
              IF j \in select_dtypes_number(t) /\ isnull(t.data[i][j]) /\ notna_sum(t, j) > 0
              THEN Centre(strategy, t, j)
              ELSE t.data[i][j]

\* C13's case: fill_mean has made [1, 2, 3] of the column [1, null, 3], next to
\* a text column with a null.
C13_Witness ==
  \E c \in Filled("fill_mean") :
    LET t == hist[c[1]][c[2]].before
        u == hist[c[1]][c[2]].out
    IN /\ Column(t, 1) = << Num(1), NaN, Num(3) >>
       /\ Column(u, 1) = << Num(1), Num(2), Num(3) >>
       /\ \E i \in Positions(u) : isnull(u.data[i][3])

\* Whether the string s is a most frequent value of column j of t.
MostFrequent(t, j, s) ==
  /\ value_count(t, j, s) > 0
  /\ \A i \in Positions(t) :
       notna(t.data[i][j]) => value_count(t, j, t.data[i][j].s) <= value_count(t, j, s)

\* C14: fill_mode replaces the nulls of a text (object) column with one of
\* the column's most frequent values, the same for all of them, and with
\* "Unknown" when the column holds no value; the cells of the other columns
\* and the non-null cells are unchanged.
C14_ModeOrUnknown ==
  \A c \in Filled("fill_mode") :
    LET t == hist[c[1]][c[2]].before
        u == hist[c[1]][c[2]].out
    IN /\ SameShape(t, u)
       /\ \A j \in ColumnPositions(t) : \A i \in Positions(t) :
            IF is_object(t, j) /\ isnull(t.data[i][j])
            THEN /\ u.data[i][j].k = "str"
                 /\ IF notna_sum(t, j) = 0
                    THEN u.data[i][j] = Str("Unknown")
                    ELSE MostFrequent(t, j, u.data[i][j].s)
                 /\ \A h \in Positions(t) :
                      isnull(t.data[h][j]) => u.data[h][j] = u.data[i][j]
            ELSE u.data[i][j] = t.data[i][j]

\* C14's case: fill_mode has filled a text column without a value with
\* "Unknown".
C14_Witness ==
  \E c \in Filled("fill_mode") :
    LET t == hist[c[1]][c[2]].before
        u == hist[c[1]][c[2]].out
    IN /\ is_object(t, 3)
       /\ notna_sum(t, 3) = 0
       /\ len(t) > 1
       /\ \A i \in Positions(u) : u.data[i][3] = Str("Unknown")

\* C14's other case: fill_mode has filled a null of a text column with the
\* value that occurs more often than another value of the column, and has left
\* a null in a numeric column.
C14_WitnessMode ==
  \E c \in Filled("fill_mode") :
    LET t == hist[c[1]][c[2]].before
        u == hist[c[1]][c[2]].out
    IN \E i \in Positions(t) :
         /\ isnull(t.data[i][3])
         /\ value_count(t, 3, "z") > value_count(t, 3, "x")
         /\ value_count(t, 3, "x") > 0
         /\ u.data[i][3] = Str("z")
         /\ \E h \in Positions(u) : isnull(u.data[h][1]) \/ isnull(u.data[h][2])

\* The calls of handle_missing_values, returned, under a strategy that is none
\* of drop, fill_mean, fill_median and fill_mode.
UnknownStrategyCalls ==
  {c \in UNION {{<< r, i >> : i \in DOMAIN hist[r]} : r \in Reqs} :
     /\ hist[c[1]][c[2]].stage = "handle_missing"
     /\ missing_strategy(c[1]) \notin {"drop", "fill_mean", "fill_median", "fill_mode"}}

\* C15: handle_missing_values under a strategy that is none of the four
\* (such as 'none') raises nothing and returns the frame passed, unchanged.
C15_UnknownStrategyNoOp ==
  \A c \in UnknownStrategyCalls :
    LET call_ == hist[c[1]][c[2]]
    IN /\ ~call_.raised
       /\ call_.ret = call_.arg
       /\ call_.out = call_.before
       /\ call_.after = call_.before

\* C15's case: a frame with a null has been passed under the strategy 'none'
\* and has come back with the null.
C15_Witness ==
  \E c \in UnknownStrategyCalls :
    /\ missing_strategy(c[1]) = "none"
    /\ \E i \in Positions(hist[c[1]][c[2]].before) :
         isnull(hist[c[1]][c[2]].before.data[i][1])
    /\ hist[c[1]][c[2]].out = hist[c[1]][c[2]].before

\* The calls of a stage that have returned without raising.
Calls(stage) ==
  {c \in UNION {{<< r, i >> : i \in DOMAIN hist[r]} : r \in Reqs} :
     hist[c[1]][c[2]].stage = stage /\ ~hist[c[1]][c[2]].raised}

\* The numeric columns of t that hold more than ten values.
Evaluated(t) ==
  {j \in ColumnPositions(t) :
     /\ t.dtypes[j] = "number"
     /\ Cardinality({i \in Positions(t) : notna(t.data[i][j])}) > 10}

\* The rows of t with a value in every evaluated column.
CompleteRows(t) == {i \in Positions(t) : \A j \in Evaluated(t) : notna(t.data[i][j])}

\* C16: remove_outliers returns the frame passed, with every row, when the
\* frame has no numeric column, or no numeric column with more than 10
\* values, or fewer than 10 rows with a value in every evaluated column; it
\* fits the model, and returns a new frame of the fitted rows it did not
\* flag, only with 10 such rows or more.
C16_SkippedBelowTenRows ==
  \A c \in Calls("remove_outliers") :
    LET call_ == hist[c[1]][c[2]]
        t == call_.before
    IN IF Evaluated(t) = {} \/ Cardinality(CompleteRows(t)) < 10
       THEN /\ call_.ret = call_.arg
            /\ call_.out = t
            /\ call_.flagged = {}
       ELSE /\ call_.ret # call_.arg
            /\ call_.flagged \subseteq CompleteRows(t)
            /\ {call_.out.index[i] : i \in Positions(call_.out)}
                 = {t.index[i] : i \in CompleteRows(t) \ call_.flagged}

\* C16's case: a frame of two evaluated columns and 9 complete rows has come
\* back whole.
C16_Witness ==
  \E c \in Calls("remove_outliers") :
    LET t == hist[c[1]][c[2]].before
    IN /\ Cardinality(Evaluated(t)) = 2
       /\ Cardinality(CompleteRows(t)) = 9
       /\ hist[c[1]][c[2]].out = t

\* C16's other case: the model has been fitted on exactly 10 complete rows and
\* has flagged one of them.
C16_WitnessTen ==
  /\ \E c \in Calls("remove_outliers") :
       /\ Cardinality(CompleteRows(hist[c[1]][c[2]].before)) = 10
       /\ Evaluated(hist[c[1]][c[2]].before) # {}
       /\ hist[c[1]][c[2]].ret # hist[c[1]][c[2]].arg
       /\ len(hist[c[1]][c[2]].out) = 9

(***************************************************************************)
(* The IQR bounds of the quality report (Spec, the GET requests).          *)
(***************************************************************************)
\* The values of column j of t strictly below lo or strictly above hi, as rows.
StrictlyOutside(t, j, lo, hi) ==
  {i \in Positions(t) :
     /\ notna(t.data[i][j])
     /\ \/ t.data[i][j].n * lo.d < lo.n * t.data[i][j].d
        \/ hi.n * t.data[i][j].d < t.data[i][j].n * hi.d}

\* The uploaded table's column a is 1, 2, 3, 4, 5, 100.
SixValues == Column(Uploaded, 1) = << Num(1), Num(2), Num(3), Num(4), Num(5), Num(100) >>

\* The uploaded table's column a is 100, 2, 3, ..., 13.
ThirteenValues ==
  Column(Uploaded, 1) = [i \in 1..13 |-> IF i = 1 THEN Num(100) ELSE Num(i)]

\* C17 (as claimed): the quality report on the column 1, 2, 3, 4, 5, 100 gives
\* the bounds -1.5 and 8.5 and the one outlier 100.
C17_SixValuesReported ==
  \A r \in Reqs :
    (Rendered(r) /\ SixValues) =>
      /\ 1 \in DOMAIN resp[r].quality_info.outliers
      /\ resp[r].quality_info.outliers[1].lower_bound = Rat(-3, 2)
      /\ resp[r].quality_info.outliers[1].upper_bound = Rat(17, 2)
      /\ resp[r].quality_info.outliers[1].count = 1

\* C17 (amended): for a numeric column of more than 10 values the bounds are
\* Q1 - 1.5 IQR and Q3 + 1.5 IQR, and the outliers counted are the values
\* strictly below the first or strictly above the second, a value equal to a
\* bound not being one; the column is reported when there is such a value.
\* The six values 1, 2, 3, 4, 5, 100 have Q1 = 2.25 and Q3 = 4.75, bounds -1.5
\* and 8.5, but a column of six values is not examined and nothing is reported
\* for it; of the 13 values 100, 2, 3, ..., 13 the bounds are -4 and 20 and
\* 100 is the one outlier.
C17_StrictlyOutsideBounds ==
  \A r \in Reqs :
    Rendered(r) =>
      LET t == Uploaded
          info == resp[r].quality_info.outliers
      IN /\ \A j \in select_dtypes_number(t) :
              notna_sum(t, j) > 10 =>
                LET q1 == quantile(t, j, 1)
                    q3 == quantile(t, j, 3)
                    lo == RSub(q1, RScale(RSub(q3, q1), 3, 2))
                    hi == RAdd(q3, RScale(RSub(q3, q1), 3, 2))
                    n == Cardinality(StrictlyOutside(t, j, lo, hi))
                IN IF n = 0 THEN j \notin DOMAIN info
                   ELSE /\ j \in DOMAIN info
                        /\ info[j].lower_bound = lo
                        /\ info[j].upper_bound = hi
                        /\ info[j].count = n
         /\ SixValues =>
              /\ quantile(t, 1, 1) = Rat(9, 4)
              /\ quantile(t, 1, 3) = Rat(19, 4)
              /\ info = << >>
         /\ ThirteenValues =>
              /\ 1 \in DOMAIN info
              /\ info[1].lower_bound = Num(-4)
              /\ info[1].upper_bound = Num(20)
              /\ info[1].count = 1
              /\ info[1].percentage = 769

\* C17's case: a report on the 13 values, with the outlier 100 in column a,
\* and nothing for column b, whose values all equal both of its bounds.
C17_Witness ==
  \E r \in Reqs :
    /\ Rendered(r)
    /\ ThirteenValues
    /\ notna_sum(Uploaded, 2) > 10
    /\ quantile(Uploaded, 2, 1) = Num(5)
    /\ quantile(Uploaded, 2, 3) = Num(5)
    /\ DOMAIN resp[r].quality_info.outliers = {1}

(***************************************************************************)
(* remove_duplicates (SpecStage).                                          *)
(***************************************************************************)
\* The position in t of the row labelled l.
At(t, l) == CHOOSE i \in Positions(t) : t.index[i] = l

\* The labels of the rows of t.
Labels(t) == {t.index[i] : i \in Positions(t)}

\* C18: remove_duplicates removes exactly the rows that equal an earlier row
\* in all columns: the first row of each group of equal rows is kept, a row
\* that differs from every earlier row in some column is kept, the kept rows
\* are in their order, unchanged, and the rows removed number len(input) -
\* len(output).
C18_ExactlyLaterEqualRowsRemoved ==
  \A c \in Calls("remove_duplicates") :
    LET in == hist[c[1]][c[2]].before
        out == hist[c[1]][c[2]].out
        removed == {i \in Positions(in) : in.index[i] \notin Labels(out)}
    IN /\ out.columns = in.columns
       /\ Labels(out) \subseteq Labels(in)
       /\ \A i \in Positions(in) :
            i \in removed <=>
              \E h \in Positions(in) :
                h < i /\ \A j \in ColumnPositions(in) : in.data[h][j] = in.data[i][j]
       /\ \A p \in Positions(out) : out.data[p] = in.data[At(in, out.index[p])]
       /\ \A p, q \in Positions(out) :
            p < q => At(in, out.index[p]) < At(in, out.index[q])
       /\ Cardinality(removed) = len(in) - len(out)

\* C18's case: remove_duplicates has removed a row that equals an earlier row
\* from which a different row separates it, and has kept both of these.
C18_Witness ==
  \E c \in Calls("remove_duplicates") :
    LET in == hist[c[1]][c[2]].before
        out == hist[c[1]][c[2]].out
    IN \E h, m, i \in Positions(in) :
         /\ h < m /\ m < i
         /\ in.data[h] = in.data[i]
         /\ in.data[m] # in.data[h]
         /\ in.index[h] \in Labels(out)
         /\ in.index[m] \in Labels(out)
         /\ in.index[i] \notin Labels(out)

(***************************************************************************)
(* A browser session (SpecSession): upload and /clean requests sent one    *)
(* after the other, each after the response to the one before it.          *)
(***************************************************************************)
ALLOWED_EXTENSIONS == {"csv", "xlsx", "xls"}

\* allowed_file(file.filename), for a file name with the extension ext.
allowed_file(ext) == lower(ext) \in ALLOWED_EXTENSIONS

\* str(uuid.uuid4()) of the upload of request r: no two uploads get the same.
uuid4(r) == << "uuid-1", "uuid-2", "uuid-3", "uuid-4" >>[r]

\* f"{uuid.uuid4()}.{file_extension}"
unique_filename(r, ext) == [prefix |-> 0, stem |-> uuid4(r), ext |-> lower(ext)]

UploadRequest == [method |-> "UPLOAD", form |-> << >>, missing_strategy |-> "absent"]

\* The files a browser uploads: a text or a workbook of one of the tables,
\* under a name with an extension.
UploadedFiles ==
  {[ext |-> e, content |-> c] :
     e \in {"csv", "XLSX", "txt"},
     c \in {TextContent("ascii", Columns, Cells(<< "O", "O", "S" >>, ShortFill)),
            Workbook(Columns, Cells(<< "O", "O", "S" >>, ShortFill))}}

\* file.save(file_path); session['current_file'] = unique_filename; redirect
\* to the preview page.
SaveUpload(r, name, file) ==
  /\ disk' = [m \in DOMAIN disk \cup {name} |->
                IF m = name THEN Stored(file.content) ELSE disk[m]]
  /\ Respond(r, "redirect_preview", [has |-> TRUE, current_file |-> name])

\* POST /upload: a file of a type that is not allowed is refused; an allowed
\* one is saved under a unique name and current_file is set to that name; a
\* save that raises leaves nothing or a part of the file in the folder, the
\* error is flashed and the session is as it came.
Upload(r) ==
  /\ pc[r] = "upload"
  /\ \E file \in UploadedFiles :
       LET name == unique_filename(r, file.ext)
       IN IF ~allowed_file(file.ext)
          THEN /\ Respond(r, "render_upload", cookie)
               /\ UNCHANGED disk
          ELSE \/ SaveUpload(r, name, file)
               \/ /\ Respond(r, "redirect_upload", cookie)
                  /\ \/ UNCHANGED disk
                     \/ \E n \in 0..Len(file.content.cells) :
                          disk' = [m \in DOMAIN disk \cup {name} |->
                                     IF m = name
                                     THEN [content |->
                                             [file.content EXCEPT !.cells = SubSeq(@, 1, n)],
                                           writers |-> {}, torn |-> TRUE]
                                     ELSE disk[m]]
  /\ UNCHANGED << req, heap, df, col, call, hist, loadIn, loadOut, report, processor >>

\* The browser sends request r after the response to the one before it: to
\* /upload or to /clean.
Send(r) ==
  /\ pc[r] = "none"
  /\ \A q \in 1..(r - 1) : pc[q] = "done"
  /\ pc' = [pc EXCEPT ![r] = IF req[r].method = "UPLOAD" THEN "upload" ELSE "sent"]
  /\ UNCHANGED << disk, cookie, req, session, heap, df, col, call, hist, resp,
                  loadIn, loadOut, report, processor >>

\* The requests of a session: uploads, quality reports and cleanings without
\* options or with all three.
SessionRequests ==
  {UploadRequest, GetRequest,
   [method |-> "POST", form |-> << >>, missing_strategy |-> "absent"]}
    \cup {[method |-> "POST",
           form |-> << "remove_duplicates", "handle_missing", "remove_outliers" >>,
           missing_strategy |-> st] : st \in {"fill_mode", "drop"}}

\* The session and the upload folder before the first request: a file has
\* been uploaded, a text or a workbook; or the session names a file that is no
\* longer in the folder; or nothing has been uploaded in this session.
InitSession ==
  /\ req \in [Reqs -> SessionRequests]
  /\ \/ /\ \E cells \in ConcTables :
             disk = [n \in {UploadName("csv")} |->
                       Stored(TextContent("ascii", Columns, cells))]
        /\ cookie = [has |-> TRUE, current_file |-> UploadName("csv")]
     \/ /\ disk = [n \in {UploadName("xlsx")} |->
                     Stored(Workbook(Columns, Cells(<< "O", "O", "S" >>, ShortFill)))]
        /\ cookie = [has |-> TRUE, current_file |-> UploadName("xlsx")]
     \/ /\ disk = << >>
        /\ cookie \in {[has |-> TRUE, current_file |-> UploadName("csv")], NoSession}
  /\ pc = [r \in Reqs |-> "none"]
  /\ Idle
  /\ loadIn = NoLoad
  /\ loadOut = NoLoadResult
  /\ report = NoReport
  /\ processor = DataProcessor

NextSession == \E r \in Reqs : Send(r) \/ Upload(r) \/ Handler(r)

SpecSession == InitSession /\ [][NextSession]_vars

\* The file of that name is in the folder, whole and closed, with that content.
Saved(files, name, content) ==
  /\ name \in DOMAIN files
  /\ files[name] = [content |-> content, writers |-> {}, torn |-> FALSE]

\* Request r is answered in this step.
Answered(r) == pc[r] # "done" /\ pc'[r] = "done"

\* C19: in a sequence of upload and cleaning requests the session's current
\* file changes only in the step that answers a request whose file has been
\* written: a cleaning request answered with the redirect to the dashboard
\* sets it to cleaned_ + the name before the request, and that file is in the
\* folder with the cleaned table; an upload answered with the redirect to the
\* preview sets it to the name the file was saved under; a request answered
\* in any other way (the load failed, or something raised before or during
\* the write) leaves the session as it was before the request.
C19_SessionChangesAfterWrite ==
  [][/\ cookie' # cookie => \E r \in Reqs : Answered(r)
     /\ \A r \in Reqs :
          Answered(r) =>
            IF req[r].method = "POST" /\ resp'[r].kind = "redirect_dashboard"
            THEN /\ cookie.has /\ cookie'.has
                 /\ cookie'.current_file = [cookie.current_file EXCEPT !.prefix = @ + 1]
                 /\ Saved(disk', cookie'.current_file,
                          IF cookie.current_file.ext = "csv"
                          THEN TextContent("ascii", Frame(r).columns, Frame(r).data)
                          ELSE Workbook(Frame(r).columns, Frame(r).data))
            ELSE IF req[r].method = "UPLOAD" /\ resp'[r].kind = "redirect_preview"
            THEN /\ cookie'.has
                 /\ cookie'.current_file \notin DOMAIN disk
                 /\ \E file \in UploadedFiles :
                      Saved(disk', cookie'.current_file, file.content)
            ELSE cookie' = cookie]_vars

\* C19's case: the first cleaning request raised during its write, which left
\* a part of the file in the folder and the session on the uploaded file, and
\* the second one has written the whole file and set the session to it.
C19_Witness ==
  /\ req[1].method = "POST" /\ pc[1] = "done" /\ resp[1].kind = "redirect_preview"
  /\ req[2].method = "POST" /\ pc[2] = "done" /\ resp[2].kind = "redirect_dashboard"
  /\ cookie = [has |-> TRUE, current_file |-> cleaned_filename(UploadName("csv"))]
  /\ Saved(disk, cookie.current_file, disk[cookie.current_file].content)

\* C19's case: two cleaning requests, one after the other, have succeeded.
C19_WitnessTwice ==
  /\ pc[2] = "done" /\ resp[2].kind = "redirect_dashboard"
  /\ cookie.current_file = cleaned_filename(cleaned_filename(UploadName("csv")))
  /\ Saved(disk, cookie.current_file, disk[cookie.current_file].content)

(***************************************************************************)
(* The cleaned table against the loaded one (Spec).                        *)
(***************************************************************************)
\* C20: whatever the options of a cleaning request, the cleaned table has the
\* column names of the loaded table in their order and no more rows; each of
\* its rows is a row of the loaded table, equal to it in every cell that held
\* a value there (a cell that was null may have been filled), no row of the
\* loaded table is taken twice, and the rows are in the order they had in it.
C20_RowsOfInputInOrder ==
  \A r \in Reqs :
    Cleaned(r) =>
      LET in == Uploaded
          out == Frame(r)
      IN /\ out.columns = in.columns
         /\ len(out) <= len(in)
         /\ \A p \in Positions(out) :
              /\ out.index[p] \in Labels(in)
              /\ \A j \in ColumnPositions(in) :
                   \/ out.data[p][j] = in.data[At(in, out.index[p])][j]
                   \/ /\ isnull(in.data[At(in, out.index[p])][j])
                      /\ HasOption(r, "handle_missing")
         /\ \A p, q \in Positions(out) :
              p < q => At(in, out.index[p]) < At(in, out.index[q])

\* C20's case: with the three options and a fill strategy, a duplicate row has
\* been dropped, a null has been filled and a flagged row has been removed,
\* and rows before and after the removed ones are in the cleaned table.
C20_Witness ==
  \E r \in Reqs :
    /\ Cleaned(r)
    /\ Len(req[r].form) = 3
    /\ Raises(r) = 0
    /\ len(Frame(r)) + 2 <= len(Uploaded)
    /\ FlaggedIn(r) # {}
    /\ \E p \in Positions(Frame(r)) : \E j \in ColumnPositions(Uploaded) :
         /\ isnull(Uploaded.data[At(Uploaded, Frame(r).index[p])][j])
         /\ notna(Frame(r).data[p][j])
    /\ \E p, q \in Positions(Frame(r)) :
         \E i \in Positions(Uploaded) :
           /\ Uploaded.index[i] \notin Labels(Frame(r))
           /\ At(Uploaded, Frame(r).index[p]) < i
           /\ i < At(Uploaded, Frame(r).index[q])

=============================================================================
